---- MODULE Spec2Model ----
(***************************************************************************)
(* Model of the voting API of app/routes: the voter and candidate          *)
(* registries, the plurality path (cast_vote, cast_weighted_vote,          *)
(* get_winner), the ranked and encrypted ballot stores and the Schulze     *)
(* resolution.  Every handler is an `async def` without an await, so a     *)
(* handler is one atomic step of the event loop.                           *)
(*                                                                         *)
(* Python dicts are functions whose DOMAIN is the key set; lists are       *)
(* sequences; a raised HTTPException is the response of the call.          *)
(***************************************************************************)
EXTENDS Integers, Sequences, FiniteSets, TLC

VARIABLES
    in_memory_voters,      \* voter_routes.py:6    voter id -> age of the stored Voter
    in_memory_candidates,  \* candidate_routes.py:6  set of registered candidate ids
    candidate_votes,       \* vote_routes.py:17    candidate id -> tally
    voter_voted,           \* vote_routes.py:20    voter id -> TRUE
    vote_timeline,         \* vote_routes.py:28    candidate id -> sequence of VoteRecord
    encrypted_ballots,     \* ballot_routes.py:29  sequence of EncryptedBallot
    ranked_ballots,        \* ballot_routes.py:30  sequence of RankedBallot
    encrypted_voter_set,   \* ballot_routes.py:31
    ranked_voter_set,      \* ballot_routes.py:32
    requests,              \* request id -> the request's coroutine: position and answer
    response               \* the response of the last completed call

vars == <<in_memory_voters, in_memory_candidates, candidate_votes, voter_voted,
          vote_timeline, encrypted_ballots, ranked_ballots, encrypted_voter_set,
          ranked_voter_set, requests, response>>

registries == <<in_memory_voters, in_memory_candidates>>
plurality == <<candidate_votes, voter_voted, vote_timeline>>
encrypted == <<encrypted_ballots, encrypted_voter_set>>
ranked == <<ranked_ballots, ranked_voter_set>>

(***************************************************************************)
(* Bounds of the model and constants of the program.                       *)
(***************************************************************************)
MaxVoterId == 2
MaxCandidateId == 2
MaxBatch == 1
MaxBallotVoterId == 1
MaxRankedCandidateId == 3
MaxRankedBallots == 3
MaxRequests == 2
MaxTime == 2
MaxTotalBallots == 8
MaxRiskTenths == 10
MaxNoiseHalves == 4
MaxRecordVoterId == 2
MinVotingAge == 18

VoterIds == 1..MaxVoterId
CandidateIds == 1..MaxCandidateId
\* datetime.utcnow() as read by the plurality calls of the sequential API: no
\* property of these calls reads the timestamp, so one instant stands for it.
Times == {1}
Ages == {MinVotingAge - 1, MinVotingAge}

\* Sequences over S of length lo..hi.
SeqsOf(S, lo, hi) == UNION {[1..n -> S] : n \in lo..hi}

(***************************************************************************)
(* dict helpers                                                            *)
(***************************************************************************)
EmptyDict == [k \in {} |-> 0]
Get(d, k, default) == IF k \in DOMAIN d THEN d[k] ELSE default
Put(d, k, v) == [x \in (DOMAIN d) \cup {k} |-> IF x = k THEN v ELSE d[x]]
Del(d, k) == [x \in (DOMAIN d) \ {k} |-> d[x]]
\* The dict d itself, as an explicit table (its entries are computed once).
Table(d) == d @@ EmptyDict

RECURSIVE SumWeights(_)
SumWeights(records) ==
    IF records = <<>> THEN 0
    ELSE Head(records).weight + SumWeights(Tail(records))

Max(S) == CHOOSE m \in S : \A x \in S : x <= m
Min2(a, b) == IF a <= b THEN a ELSE b
Max2(a, b) == IF a >= b THEN a ELSE b

(***************************************************************************)
(* Responses.  status is the HTTP status code, detail the HTTPException    *)
(* detail (or "" on success), body the part of the returned payload that   *)
(* the properties read.                                                    *)
(***************************************************************************)
NoBody == [none |-> TRUE]
Reply(op, status, detail, body) ==
    [op |-> op, status |-> status, detail |-> detail, body |-> body]
NoResponse == Reply("", 0, "", NoBody)

(***************************************************************************)
(* models.py: Voter.age is declared Field(ge=18) and validated again by    *)
(* check_age; a request whose body fails validation is answered 422 before *)
(* the handler runs.                                                       *)
(***************************************************************************)
check_age(age) == age >= MinVotingAge

(***************************************************************************)
(* voter_routes.py                                                         *)
(***************************************************************************)
\* The loop of create_voters over voters[i..]: registry after the loop and
\* whether it raised 409 (voters stored before the raise stay stored).
RECURSIVE CreateLoop(_, _, _)
CreateLoop(reg, voters, i) ==
    IF i > Len(voters) THEN [reg |-> reg, conflict |-> FALSE]
    ELSE IF voters[i].voter_id \in DOMAIN reg THEN [reg |-> reg, conflict |-> TRUE]
    ELSE CreateLoop(Put(reg, voters[i].voter_id, voters[i].age), voters, i + 1)

create_voters(voters) ==
    /\ UNCHANGED <<in_memory_candidates, plurality, encrypted, ranked>>
    /\ IF \E i \in 1..Len(voters) : ~check_age(voters[i].age)
       THEN /\ UNCHANGED in_memory_voters
            /\ response' = Reply("create_voters", 422, "validation", NoBody)
       ELSE LET r == CreateLoop(in_memory_voters, voters, 1) IN
            /\ in_memory_voters' = r.reg
            /\ response' = IF r.conflict
                           THEN Reply("create_voters", 409, "already exists", NoBody)
                           ELSE Reply("create_voters", 201, "", NoBody)

update_voter(voter_id, age) ==
    /\ UNCHANGED <<in_memory_candidates, plurality, encrypted, ranked>>
    /\ IF ~check_age(age)
       THEN /\ UNCHANGED in_memory_voters
            /\ response' = Reply("update_voter", 422, "validation", NoBody)
       ELSE IF voter_id \notin DOMAIN in_memory_voters
       THEN /\ UNCHANGED in_memory_voters
            /\ response' = Reply("update_voter", 404, "not found", NoBody)
       ELSE /\ in_memory_voters' = Put(in_memory_voters, voter_id, age)
            /\ response' = Reply("update_voter", 200, "", NoBody)

\* Mutant of delete_voter: deleting a voter also forgets that the voter voted.
delete_voter_forgets_vote(voter_id) ==
    /\ UNCHANGED <<in_memory_candidates, candidate_votes, vote_timeline, encrypted, ranked>>
    /\ IF voter_id \notin DOMAIN in_memory_voters
       THEN /\ UNCHANGED <<in_memory_voters, voter_voted>>
            /\ response' = Reply("delete_voter", 404, "not found", NoBody)
       ELSE /\ in_memory_voters' = Del(in_memory_voters, voter_id)
            /\ voter_voted' = Del(voter_voted, voter_id)
            /\ response' = Reply("delete_voter", 204, "", NoBody)

\* Mutant of delete_voter: deleting a voter also removes the voter's ranked
\* ballot from the store.
delete_voter_purges_ballot(voter_id) ==
    /\ UNCHANGED <<in_memory_candidates, plurality, encrypted, ranked_voter_set>>
    /\ IF voter_id \notin DOMAIN in_memory_voters
       THEN /\ UNCHANGED <<in_memory_voters, ranked_ballots>>
            /\ response' = Reply("delete_voter", 404, "not found", NoBody)
       ELSE /\ in_memory_voters' = Del(in_memory_voters, voter_id)
            /\ ranked_ballots' = SelectSeq(ranked_ballots, LAMBDA b : b.voter_id # voter_id)
            /\ response' = Reply("delete_voter", 204, "", NoBody)

delete_voter(voter_id) ==
    /\ UNCHANGED <<in_memory_candidates, plurality, encrypted, ranked>>
    /\ IF voter_id \notin DOMAIN in_memory_voters
       THEN /\ UNCHANGED in_memory_voters
            /\ response' = Reply("delete_voter", 404, "not found", NoBody)
       ELSE /\ in_memory_voters' = Del(in_memory_voters, voter_id)
            /\ response' = Reply("delete_voter", 204, "", NoBody)

(***************************************************************************)
(* candidate_routes.py                                                     *)
(***************************************************************************)
RECURSIVE RegisterLoop(_, _, _)
RegisterLoop(reg, candidates, i) ==
    IF i > Len(candidates) THEN [reg |-> reg, conflict |-> FALSE]
    ELSE IF candidates[i] \in reg THEN [reg |-> reg, conflict |-> TRUE]
    ELSE RegisterLoop(reg \cup {candidates[i]}, candidates, i + 1)

register_candidates(candidates) ==
    /\ UNCHANGED <<in_memory_voters, plurality, encrypted, ranked>>
    /\ LET r == RegisterLoop(in_memory_candidates, candidates, 1) IN
       /\ in_memory_candidates' = r.reg
       /\ response' = IF r.conflict
                      THEN Reply("register_candidates", 409, "already exists", NoBody)
                      ELSE Reply("register_candidates", 201, "", NoBody)

(***************************************************************************)
(* vote_routes.py: the plurality path                                      *)
(***************************************************************************)
VoteRecord(voter_id, timestamp, weight) ==
    [voter_id |-> voter_id, timestamp |-> timestamp, weight |-> weight]

\* The four precondition checks of cast_vote / cast_weighted_vote, in the
\* order of the code: the first failing one is the HTTPException raised.
VoteChecks(voter_id, candidate_id) ==
    IF voter_id \notin DOMAIN in_memory_voters
    THEN [status |-> 404, detail |-> "Voter not found."]
    ELSE IF in_memory_voters[voter_id] < MinVotingAge
    THEN [status |-> 403, detail |-> "Voter must be at least 18 years old."]
    ELSE IF candidate_id \notin in_memory_candidates
    THEN [status |-> 404, detail |-> "Candidate not found."]
    ELSE IF Get(voter_voted, voter_id, FALSE)
    THEN [status |-> 409, detail |-> "Voter has already cast a vote."]
    ELSE [status |-> 201, detail |-> ""]

\* Mutant of RecordVote: the record is built without its weight (VoteRecord's
\* default weight, 1).
RecordVoteDefaultWeight(voter_id, candidate_id, weight, now) ==
    /\ candidate_votes' =
           Put(candidate_votes, candidate_id, Get(candidate_votes, candidate_id, 0) + weight)
    /\ voter_voted' = Put(voter_voted, voter_id, TRUE)
    /\ vote_timeline' =
           Put(vote_timeline, candidate_id,
               Append(Get(vote_timeline, candidate_id, <<>>),
                      VoteRecord(voter_id, now, 1)))

\* The three writes of an accepted vote.
RecordVote(voter_id, candidate_id, weight, now) ==
    /\ candidate_votes' =
           Put(candidate_votes, candidate_id, Get(candidate_votes, candidate_id, 0) + weight)
    /\ voter_voted' = Put(voter_voted, voter_id, TRUE)
    /\ vote_timeline' =
           Put(vote_timeline, candidate_id,
               Append(Get(vote_timeline, candidate_id, <<>>),
                      VoteRecord(voter_id, now, weight)))

\* Mutant of Weight: the profile flag is ignored.
WeightAlwaysOne(profile_updated) == 1

\* weight = 2 if profile_updated else 1
Weight(profile_updated) == IF profile_updated THEN 2 ELSE 1

\* Mutant of cast_vote: the has-voted marker is written before the candidate
\* check, so a vote for an unknown candidate fails after a write.
cast_vote_marks_early(voter_id, candidate_id, now) ==
    /\ UNCHANGED <<registries, encrypted, ranked>>
    /\ LET chk == VoteChecks(voter_id, candidate_id) IN
       /\ response' = Reply("cast_vote", chk.status, chk.detail, NoBody)
       /\ IF chk.status = 201
          THEN RecordVote(voter_id, candidate_id, 1, now)
          ELSE IF chk.detail = "Candidate not found."
          THEN /\ voter_voted' = Put(voter_voted, voter_id, TRUE)
               /\ UNCHANGED <<candidate_votes, vote_timeline>>
          ELSE UNCHANGED plurality

cast_vote(voter_id, candidate_id, now) ==
    /\ UNCHANGED <<registries, encrypted, ranked>>
    /\ LET chk == VoteChecks(voter_id, candidate_id) IN
       /\ response' = Reply("cast_vote", chk.status, chk.detail, NoBody)
       /\ IF chk.status # 201
          THEN UNCHANGED plurality
          ELSE RecordVote(voter_id, candidate_id, 1, now)

cast_weighted_vote(voter_id, candidate_id, profile_updated, now) ==
    /\ UNCHANGED <<registries, encrypted, ranked>>
    /\ LET chk == VoteChecks(voter_id, candidate_id) IN
       /\ response' = Reply("cast_weighted_vote", chk.status, chk.detail, NoBody)
       /\ IF chk.status # 201
          THEN UNCHANGED plurality
          ELSE RecordVote(voter_id, candidate_id, Weight(profile_updated), now)

\* max(candidate_votes.values(), default=0)
MaxVotes(votes) == IF DOMAIN votes = {} THEN 0 ELSE Max({votes[c] : c \in DOMAIN votes})

\* Mutant of Winners: a single leader, ties not handled.
WinnersNoTie(votes, candidates) ==
    LET top == {c \in candidates : Get(votes, c, 0) = MaxVotes(votes)} IN
    IF top = {} THEN {} ELSE {CHOOSE c \in top : TRUE}

Winners(votes, candidates) ==
    {c \in candidates : Get(votes, c, 0) = MaxVotes(votes)}

\* What get_winner answers in the current state.
winner_result ==
    IF DOMAIN candidate_votes = {}
    THEN Reply("get_winner", 404, "No votes have been cast yet.", NoBody)
    ELSE Reply("get_winner", 200, "",
               [winners |-> Winners(candidate_votes, in_memory_candidates),
                max_votes |-> MaxVotes(candidate_votes)])

get_winner ==
    /\ UNCHANGED <<registries, plurality, encrypted, ranked>>
    /\ response' = winner_result

\* What get_candidate_votes answers in the current state.
candidate_votes_result(candidate_id) ==
    IF candidate_id \notin in_memory_candidates
    THEN Reply("get_candidate_votes", 404, "Candidate not found.", NoBody)
    ELSE Reply("get_candidate_votes", 200, "",
               [candidate_id |-> candidate_id,
                votes |-> Get(candidate_votes, candidate_id, 0)])

get_candidate_votes(candidate_id) ==
    /\ UNCHANGED <<registries, plurality, encrypted, ranked>>
    /\ response' = candidate_votes_result(candidate_id)

\* The votes column of the rows of S sorted by votes, largest first.
RECURSIVE SortedVotes(_, _)
SortedVotes(S, votes) ==
    IF S = {} THEN <<>>
    ELSE LET top == CHOOSE c \in S : \A d \in S : Get(votes, d, 0) <= Get(votes, c, 0)
         IN  <<Get(votes, top, 0)>> \o SortedVotes(S \ {top}, votes)

\* What voting_results answers: one row per registered candidate, sorted by
\* votes, largest first.  Rows with equal votes keep the order of registration,
\* which the registry of the model (a set) does not record: the body holds the
\* votes of each row by candidate and the votes column in leaderboard order.
voting_results_result ==
    Reply("voting_results", 200, "",
          [votes |-> [c \in in_memory_candidates |-> Get(candidate_votes, c, 0)],
           leaderboard |-> SortedVotes(in_memory_candidates, candidate_votes)])

voting_results ==
    /\ UNCHANGED <<registries, plurality, encrypted, ranked>>
    /\ response' = voting_results_result

(***************************************************************************)
(* ballot_routes.py: encrypted and ranked ballots                          *)
(***************************************************************************)
EncryptedBallot(voter_id, candidate_id, ciphertext, proof) ==
    [voter_id |-> voter_id, candidate_id |-> candidate_id,
     ciphertext |-> ciphertext, proof |-> proof]

RankedBallot(voter_id, ranking) == [voter_id |-> voter_id, ranking |-> ranking]

\* Mutant of EncryptedChecks: the duplicate check also consults the has-voted
\* marker of the plurality path (one marker shared by two ballot kinds).
EncryptedChecksSharedMarker(ballot) ==
    IF ballot.voter_id \in encrypted_voter_set \/ Get(voter_voted, ballot.voter_id, FALSE)
    THEN [status |-> 409, detail |-> "Voter has already submitted an encrypted ballot."]
    ELSE IF ballot.ciphertext = "" \/ ballot.proof = ""
    THEN [status |-> 400, detail |-> "Invalid encrypted ballot."]
    ELSE [status |-> 201, detail |-> ""]

\* Mutant of EncryptedChecks: the ciphertext and proof are checked before the
\* duplicate.
EncryptedChecksInvalidFirst(ballot) ==
    IF ballot.ciphertext = "" \/ ballot.proof = ""
    THEN [status |-> 400, detail |-> "Invalid encrypted ballot."]
    ELSE IF ballot.voter_id \in encrypted_voter_set
    THEN [status |-> 409, detail |-> "Voter has already submitted an encrypted ballot."]
    ELSE [status |-> 201, detail |-> ""]

\* The checks of submit_encrypted_ballot in the order of the code.
EncryptedChecks(ballot) ==
    IF ballot.voter_id \in encrypted_voter_set
    THEN [status |-> 409, detail |-> "Voter has already submitted an encrypted ballot."]
    ELSE IF ballot.ciphertext = "" \/ ballot.proof = ""
    THEN [status |-> 400, detail |-> "Invalid encrypted ballot."]
    ELSE [status |-> 201, detail |-> ""]

\* The two writes of an accepted encrypted ballot.
StoreEncrypted(ballot) ==
    /\ encrypted_ballots' = Append(encrypted_ballots, ballot)
    /\ encrypted_voter_set' = encrypted_voter_set \cup {ballot.voter_id}

submit_encrypted_ballot(ballot) ==
    /\ UNCHANGED <<registries, plurality, ranked>>
    /\ LET chk == EncryptedChecks(ballot) IN
       /\ response' = Reply("submit_encrypted_ballot", chk.status, chk.detail, NoBody)
       /\ IF chk.status # 201
          THEN UNCHANGED encrypted
          ELSE StoreEncrypted(ballot)

\* The check of submit_ranked_ballot.
RankedChecks(ballot) ==
    IF ballot.voter_id \in ranked_voter_set
    THEN [status |-> 409, detail |-> "Voter has already submitted a ranked ballot."]
    ELSE [status |-> 201, detail |-> ""]

\* The two writes of an accepted ranked ballot.
StoreRanked(ballot) ==
    /\ ranked_ballots' = Append(ranked_ballots, ballot)
    /\ ranked_voter_set' = ranked_voter_set \cup {ballot.voter_id}

submit_ranked_ballot(ballot) ==
    /\ UNCHANGED <<registries, plurality, encrypted>>
    /\ LET chk == RankedChecks(ballot) IN
       /\ response' = Reply("submit_ranked_ballot", chk.status, chk.detail, NoBody)
       /\ IF chk.status # 201
          THEN UNCHANGED ranked
          ELSE StoreRanked(ballot)

(***************************************************************************)
(* ballot_routes.py: schulze_winner                                        *)
(***************************************************************************)
\* candidates = set(); candidates.update(ballot.ranking) for every ballot
RankedCandidates(ballots) ==
    UNION {{ballots[b].ranking[i] : i \in 1..Len(ballots[b].ranking)} : b \in 1..Len(ballots)}

\* list(candidates): the iteration orders a set can have.
RECURSIVE IterationOrders(_)
IterationOrders(S) ==
    IF S = {} THEN {<<>>}
    ELSE UNION {{<<c>> \o rest : rest \in IterationOrders(S \ {c})} : c \in S}

\* The pairs (ci, cj) that the counting loop visits for one ranking: ci at
\* position i and cj at a later position.
LaterPairs(ranking) ==
    {<<i, j>> \in (1..Len(ranking)) \X (1..Len(ranking)) : i < j}

\* pairwise[ci][cj] += 1 raises KeyError when ci = cj: pairwise[c] has no key c.
CountingRaises(ballots) ==
    \E b \in 1..Len(ballots) : \E p \in LaterPairs(ballots[b].ranking) :
        ballots[b].ranking[p[1]] = ballots[b].ranking[p[2]]

\* The number of times the counting loop increments pairwise[c][d] for a ranking.
RankingCount(ranking, c, d) ==
    Cardinality({p \in LaterPairs(ranking) : ranking[p[1]] = c /\ ranking[p[2]] = d})

RECURSIVE BallotsCount(_, _, _)
BallotsCount(ballots, c, d) ==
    IF ballots = <<>> THEN 0
    ELSE RankingCount(Head(ballots).ranking, c, d) + BallotsCount(Tail(ballots), c, d)

\* The pairwise matrix after the counting loop (keys: ordered pairs c # d).
Pairwise(ballots, candidates) ==
    Table([p \in {q \in candidates \X candidates : q[1] # q[2]} |->
              BallotsCount(ballots, p[1], p[2])])

\* strength before the closure: the strict pairwise majorities.
InitialStrength(pairwise, candidates) ==
    Table([p \in candidates \X candidates |->
              IF p[1] # p[2] /\ pairwise[p] > pairwise[<<p[2], p[1]>>]
              THEN pairwise[p] ELSE 0])

\* Mutant of Relax: the path through i overwrites strength[j][k] (no max).
RelaxOverwrite(strength, i, j, k) ==
    [strength EXCEPT ![<<j, k>>] = Min2(strength[<<j, i>>], strength[<<i, k>>])]

\* One execution of line 141 for the triple (i, j, k).
Relax(strength, i, j, k) ==
    [strength EXCEPT ![<<j, k>>] =
        Max2(strength[<<j, k>>], Min2(strength[<<j, i>>], strength[<<i, k>>]))]

\* The triple loop over candidates (i outermost, then j, then k), from its
\* t-th iteration on; order is list(candidates).
RECURSIVE Closure(_, _, _)
Closure(strength, order, t) ==
    LET n == Len(order) IN
    IF t >= n * n * n THEN strength
    ELSE LET i == order[(t \div (n * n)) + 1]
             j == order[((t \div n) % n) + 1]
             k == order[(t % n) + 1]
         IN  IF i # j /\ i # k /\ j # k
             THEN Closure(Relax(strength, i, j, k), order, t + 1)
             ELSE Closure(strength, order, t + 1)

\* Mutant of StrongestPaths: the closure is left out (direct majorities only).
StrongestPathsDirect(ballots, order) ==
    LET candidates == RankedCandidates(ballots) IN
    InitialStrength(Pairwise(ballots, candidates), candidates)

StrongestPaths(ballots, order) ==
    LET candidates == RankedCandidates(ballots) IN
    Closure(InitialStrength(Pairwise(ballots, candidates), candidates), order, 0)

\* Mutant of SchulzeWinners: a winner must strictly beat every other candidate.
SchulzeWinnersStrict(strength, candidates) ==
    {c \in candidates : \A d \in candidates \ {c} : strength[<<c, d>>] > strength[<<d, c>>]}

SchulzeWinners(strength, candidates) ==
    {c \in candidates : \A d \in candidates \ {c} : strength[<<c, d>>] >= strength[<<d, c>>]}

\* The handler for one iteration order of the candidate set.  An exception
\* that is no HTTPException is answered 500 by the framework.  The body holds
\* the returned winners and audit_trail and, for the properties of the closure,
\* the local strength as it stands at the return (not part of the payload).
schulze_result(ballots, order) ==
    IF ballots = <<>>
    THEN Reply("schulze_winner", 404, "No ranked ballots submitted.", NoBody)
    ELSE IF CountingRaises(ballots)
    THEN Reply("schulze_winner", 500, "KeyError", NoBody)
    ELSE LET candidates == RankedCandidates(ballots)
             strength == StrongestPaths(ballots, order)
         IN  Reply("schulze_winner", 200, "",
                   [winners |-> SchulzeWinners(strength, candidates),
                    audit_trail |-> Pairwise(ballots, candidates),
                    strength |-> strength])

schulze_winner ==
    /\ UNCHANGED <<registries, plurality, encrypted, ranked>>
    /\ \E order \in IterationOrders(RankedCandidates(ranked_ballots)) :
           response' = schulze_result(ranked_ballots, order)

(***************************************************************************)
(* Inputs of the calls and the specification of the sequential API         *)
(***************************************************************************)
\* Request bodies of create_voters: the lists of valid voters and, as a body
\* that fails validation, the single underage voter.
VoterBodies(ids) ==
    SeqsOf([voter_id : ids, age : {a \in Ages : check_age(a)}], 1, MaxBatch)
    \cup SeqsOf([voter_id : ids, age : {a \in Ages : ~check_age(a)}], 1, 1)
VoterBatches == VoterBodies(VoterIds)
CandidateBatches == SeqsOf(CandidateIds, 1, MaxBatch)

Init ==
    /\ in_memory_voters = EmptyDict
    /\ in_memory_candidates = {}
    /\ candidate_votes = EmptyDict
    /\ voter_voted = EmptyDict
    /\ vote_timeline = EmptyDict
    /\ encrypted_ballots = <<>>
    /\ ranked_ballots = <<>>
    /\ encrypted_voter_set = {}
    /\ ranked_voter_set = {}
    /\ requests = EmptyDict
    /\ response = NoResponse

\* A call of the sequential API: the handler runs alone on the event loop.
Next ==
    \/ \E voters \in VoterBatches : create_voters(voters) /\ UNCHANGED requests
    \/ \E v \in VoterIds, age \in Ages : update_voter(v, age) /\ UNCHANGED requests
    \/ \E v \in VoterIds : delete_voter(v) /\ UNCHANGED requests
    \/ \E candidates \in CandidateBatches :
           register_candidates(candidates) /\ UNCHANGED requests
    \/ \E v \in VoterIds, c \in CandidateIds, now \in Times :
           cast_vote(v, c, now) /\ UNCHANGED requests
    \/ \E v \in VoterIds, c \in CandidateIds, p \in BOOLEAN, now \in Times :
           cast_weighted_vote(v, c, p, now) /\ UNCHANGED requests
    \/ get_winner /\ UNCHANGED requests

Spec == Init /\ [][Next]_vars

(***************************************************************************)
(* Properties of the plurality path                                        *)
(***************************************************************************)
\* The total weight of the records accepted for a candidate.
RecordedWeight(candidate_id) == SumWeights(Get(vote_timeline, candidate_id, <<>>))

VoteFailures == {"Voter not found.", "Voter must be at least 18 years old.",
                 "Candidate not found.", "Voter has already cast a vote."}

\* C1: in every reachable state the tally stored for each candidate is the sum
\* of the weights of the vote records in that candidate's timeline, and 0 for a
\* candidate without records; candidates without a tally have no records.
C1_TallyIsSumOfWeights ==
    /\ DOMAIN candidate_votes = DOMAIN vote_timeline
    /\ \A c \in CandidateIds \cup DOMAIN candidate_votes :
           Get(candidate_votes, c, 0) = RecordedWeight(c)

\* A candidate holds a plain and a weighted record (tally 3) and the last
\* cast was rejected.
C1_Witness ==
    /\ \E c \in DOMAIN vote_timeline :
           /\ Len(vote_timeline[c]) = 2
           /\ candidate_votes[c] = 3
    /\ response.op \in {"cast_vote", "cast_weighted_vote"}
    /\ response.status = 409

\* C4: a cast_vote or cast_weighted_vote call that fails with one of the four
\* precondition errors changes neither the tallies, the has-voted markers, the
\* timelines nor the two registries.
C4_FailedCastChangesNothing ==
    [][(/\ response'.op \in {"cast_vote", "cast_weighted_vote"}
        /\ response'.detail \in VoteFailures)
       => UNCHANGED <<registries, plurality>>]_vars

\* A cast for an unknown candidate was rejected after votes were recorded.
C4_Witness ==
    /\ response.op = "cast_vote"
    /\ response.detail = "Candidate not found."
    /\ DOMAIN candidate_votes # {}
    /\ in_memory_candidates # CandidateIds

\* C5: get_winner answers 404 exactly when no candidate has recorded weight;
\* otherwise max_votes is the largest recorded total and the winners are exactly
\* the registered candidates whose recorded total is max_votes.
C5_WinnerIsMaxWithTies ==
    response.op = "get_winner" =>
        LET all == CandidateIds \cup DOMAIN vote_timeline
            top == Max({RecordedWeight(c) : c \in all})
        IN  /\ response.status = 404 <=> \A c \in all : RecordedWeight(c) = 0
            /\ response.status # 404 =>
                 /\ response.body.max_votes = top
                 /\ response.body.winners =
                        {c \in in_memory_candidates : RecordedWeight(c) = top}

\* Two candidates tie on the largest total and both are returned.
C5_Witness ==
    /\ response.op = "get_winner"
    /\ response.status = 200
    /\ response.body.max_votes = 2
    /\ Cardinality(response.body.winners) = 2

(***************************************************************************)
(* The three ballot kinds side by side: every submission call of the API   *)
(* together with the registry calls.  What a ranking or a ciphertext holds *)
(* plays no part in who may submit, so the inputs are one ranking, one     *)
(* candidate id for the encrypted ballot, and an empty or non-empty        *)
(* ciphertext and proof.                                                   *)
(***************************************************************************)
BallotVoterIds == 1..MaxBallotVoterId
BallotVoterBatches == VoterBodies(BallotVoterIds)
BallotRankings == {<<1, 2>>}
BallotEncryptedInputs ==
    {EncryptedBallot(v, 1, ct, pf) : v \in BallotVoterIds, ct \in {"", "ct"}, pf \in {"", "zk"}}

BallotsNext ==
    \/ \E voters \in BallotVoterBatches : create_voters(voters) /\ UNCHANGED requests
    \/ \E v \in BallotVoterIds, age \in Ages : update_voter(v, age) /\ UNCHANGED requests
    \/ \E v \in BallotVoterIds : delete_voter(v) /\ UNCHANGED requests
    \/ \E candidates \in CandidateBatches :
           register_candidates(candidates) /\ UNCHANGED requests
    \/ \E v \in BallotVoterIds, c \in CandidateIds, now \in Times :
           cast_vote(v, c, now) /\ UNCHANGED requests
    \/ \E v \in BallotVoterIds, c \in CandidateIds, p \in BOOLEAN, now \in Times :
           cast_weighted_vote(v, c, p, now) /\ UNCHANGED requests
    \/ \E v \in BallotVoterIds, r \in BallotRankings :
           submit_ranked_ballot(RankedBallot(v, r)) /\ UNCHANGED requests
    \/ \E b \in BallotEncryptedInputs : submit_encrypted_ballot(b) /\ UNCHANGED requests

SpecBallots == Init /\ [][BallotsNext]_vars

\* All accepted vote records, over every candidate's timeline.
RECURSIVE CountVoter(_, _)
CountVoter(records, voter_id) ==
    IF records = <<>> THEN 0
    ELSE (IF Head(records).voter_id = voter_id THEN 1 ELSE 0)
         + CountVoter(Tail(records), voter_id)

RECURSIVE SumOver(_, _, _)
SumOver(S, voter_id, timeline) ==
    IF S = {} THEN 0
    ELSE LET c == CHOOSE x \in S : TRUE IN
         CountVoter(timeline[c], voter_id) + SumOver(S \ {c}, voter_id, timeline)

VoteRecordsOf(voter_id) == SumOver(DOMAIN vote_timeline, voter_id, vote_timeline)

\* C2: in every reachable state a voter id occurs in at most one accepted vote
\* record over all timelines, at most one ranked ballot and at most one
\* encrypted ballot, whatever registry calls (deleting and creating the voter
\* again included) happen between the submissions.
C2_OneBallotPerVoterPerKind ==
    \A v \in BallotVoterIds :
        /\ VoteRecordsOf(v) <= 1
        /\ CountVoter(ranked_ballots, v) <= 1
        /\ CountVoter(encrypted_ballots, v) <= 1

\* A voter holds one ballot of each kind, has been deleted from the registry
\* since, and a further submission of that voter was just rejected as duplicate.
C2_Witness ==
    /\ \E v \in BallotVoterIds :
           /\ VoteRecordsOf(v) = 1
           /\ CountVoter(ranked_ballots, v) = 1
           /\ CountVoter(encrypted_ballots, v) = 1
           /\ v \notin DOMAIN in_memory_voters
    /\ response.status = 409
    /\ response.op = "submit_encrypted_ballot"

\* C3: whenever a ballot of any kind is accepted, the submitting voter id is,
\* at that moment, registered with an age of at least 18.
Eligible(voter_id) ==
    /\ voter_id \in DOMAIN in_memory_voters
    /\ in_memory_voters[voter_id] >= MinVotingAge

C3_AcceptedBallotsHaveEligibleVoter ==
    [][/\ voter_voted' # voter_voted =>
            \A v \in DOMAIN voter_voted' \ DOMAIN voter_voted : Eligible(v)
       /\ ranked_ballots' # ranked_ballots =>
            Eligible(ranked_ballots'[Len(ranked_ballots')].voter_id)
       /\ encrypted_ballots' # encrypted_ballots =>
            Eligible(encrypted_ballots'[Len(encrypted_ballots')].voter_id)]_vars

(***************************************************************************)
(* Schulze resolution as a function of the ranked ballot store: the store  *)
(* holds any sequence of ballots of distinct voters (submit_ranked_ballot  *)
(* accepts every ranking), here of strict rankings, and the call is made.  *)
(***************************************************************************)
RankedCandidateIds == 1..MaxRankedCandidateId

\* The rankings without a repeated candidate id.
StrictRankings ==
    {r \in SeqsOf(RankedCandidateIds, 0, MaxRankedCandidateId) :
        \A i, j \in 1..Len(r) : i # j => r[i] # r[j]}

\* The stores after voters 1..n each submitted one ranked ballot.
RankedStores ==
    {[b \in 1..Len(rs) |-> RankedBallot(b, rs[b])] :
        rs \in SeqsOf(StrictRankings, 0, MaxRankedBallots)}

SchulzeInit ==
    /\ in_memory_voters = EmptyDict
    /\ in_memory_candidates = {}
    /\ candidate_votes = EmptyDict
    /\ voter_voted = EmptyDict
    /\ vote_timeline = EmptyDict
    /\ encrypted_ballots = <<>>
    /\ encrypted_voter_set = {}
    /\ ranked_ballots \in RankedStores
    /\ ranked_voter_set = {ranked_ballots[b].voter_id : b \in 1..Len(ranked_ballots)}
    /\ requests = EmptyDict
    /\ response = NoResponse

SchulzeNext == schulze_winner /\ UNCHANGED requests

SpecSchulze == SchulzeInit /\ [][SchulzeNext]_vars

(***************************************************************************)
(* Properties of the Schulze resolution                                    *)
(***************************************************************************)
Rankings(ballots) == {ballots[b].ranking : b \in 1..Len(ballots)}

\* The cycle of the three candidates A = 1, B = 2, C = 3.
CycleRankings == {<<1, 2, 3>>, <<2, 3, 1>>, <<3, 1, 2>>}

\* C6: when the store holds exactly the three ballots [A,B,C], [B,C,A],
\* [C,A,B], in whichever order they were submitted, schulze_winner returns the
\* pairwise counts A>B=2, B>A=1, B>C=2, C>B=1, C>A=2, A>C=1 and the winners
\* {A, B, C}.
C6_CycleGivesThreeWinners ==
    (/\ response.op = "schulze_winner"
     /\ Len(ranked_ballots) = 3
     /\ Rankings(ranked_ballots) = CycleRankings)
    => /\ response.status = 200
       /\ response.body.audit_trail =
              (<<1, 2>> :> 2) @@ (<<2, 1>> :> 1) @@ (<<2, 3>> :> 2) @@
              (<<3, 2>> :> 1) @@ (<<3, 1>> :> 2) @@ (<<1, 3>> :> 1)
       /\ response.body.winners = {1, 2, 3}

\* The resolution answered for the cycle submitted as [C,A,B], [A,B,C], [B,C,A].
C6_Witness ==
    /\ response.op = "schulze_winner"
    /\ Len(ranked_ballots) = 3
    /\ ranked_ballots[1].ranking = <<3, 1, 2>>
    /\ ranked_ballots[2].ranking = <<1, 2, 3>>
    /\ ranked_ballots[3].ranking = <<2, 3, 1>>

\* The chains of strict pairwise majority defeats from c to d: sequences of
\* pairwise distinct candidates in which each beats the next.
Chains(pairwise, candidates, c, d) ==
    {p \in SeqsOf(candidates, 2, Cardinality(candidates)) :
        /\ p[1] = c
        /\ p[Len(p)] = d
        /\ \A x, y \in 1..Len(p) : x # y => p[x] # p[y]
        /\ \A x \in 1..(Len(p) - 1) :
              pairwise[<<p[x], p[x + 1]>>] > pairwise[<<p[x + 1], p[x]>>]}

\* The minimum edge along a chain.
ChainWidth(pairwise, p) ==
    CHOOSE w \in {pairwise[<<p[x], p[x + 1]>>] : x \in 1..(Len(p) - 1)} :
        \A x \in 1..(Len(p) - 1) : w <= pairwise[<<p[x], p[x + 1]>>]

StrongestChain(pairwise, candidates, c, d) ==
    LET widths == {ChainWidth(pairwise, p) : p \in Chains(pairwise, candidates, c, d)}
    IN  IF widths = {} THEN 0 ELSE Max(widths)

\* C9: the strength matrix the winners are read from is stable under the
\* relaxation (strength[j][k] >= min(strength[j][i], strength[i][k]) for all
\* pairwise distinct i, j, k) and strength[c][d] is the largest minimum edge
\* over the chains of strict pairwise majority defeats from c to d, 0 without
\* a chain.
C9_StrengthIsStrongestPath ==
    (response.op = "schulze_winner" /\ response.status = 200) =>
        LET candidates == RankedCandidates(ranked_ballots)
            strength == response.body.strength
            pairwise == response.body.audit_trail
        IN  /\ \A i, j, k \in candidates :
                  (i # j /\ i # k /\ j # k) =>
                      strength[<<j, k>>] >=
                          Min2(strength[<<j, i>>], strength[<<i, k>>])
            /\ \A c, d \in candidates :
                  c # d => strength[<<c, d>>] =
                               StrongestChain(pairwise, candidates, c, d)

\* A resolution in which the closure raised an entry: 3 has no majority over
\* 1 (strength 0 before the closure) and reaches it through 2.
C9_Witness ==
    /\ response.op = "schulze_winner"
    /\ response.status = 200
    /\ RankedCandidates(ranked_ballots) = {1, 2, 3}
    /\ response.body.audit_trail[<<3, 1>>] <= response.body.audit_trail[<<1, 3>>]
    /\ response.body.strength[<<3, 1>>] > 0

(***************************************************************************)
(* The ranked path through the API: submit_ranked_ballot takes any list of *)
(* candidate ids as a ranking.                                             *)
(***************************************************************************)
AnyRankings == SeqsOf(RankedCandidateIds, 0, MaxRankedCandidateId)

RankedNext ==
    \/ \E v \in VoterIds, r \in AnyRankings :
           submit_ranked_ballot(RankedBallot(v, r)) /\ UNCHANGED requests
    \/ schulze_winner /\ UNCHANGED requests

SpecRanked == Init /\ [][RankedNext]_vars

\* C7: when every ballot in the store ranks the same candidate first,
\* schulze_winner returns that candidate as the only winner.
C7_UnanimousFirstIsSoleWinner ==
    \A a \in RankedCandidateIds :
        (/\ response.op = "schulze_winner"
         /\ ranked_ballots # <<>>
         /\ \A b \in 1..Len(ranked_ballots) :
                /\ ranked_ballots[b].ranking # <<>>
                /\ ranked_ballots[b].ranking[1] = a)
        => /\ response.status = 200
           /\ response.body.winners = {a}

\* C8: schulze_winner fails exactly when the store is empty (404); for every
\* non-empty store it returns winners and the pairwise matrix.
C8_SchulzeFailsOnlyOnEmptyStore ==
    response.op = "schulze_winner" =>
        /\ response.status = 404 <=> ranked_ballots = <<>>
        /\ ranked_ballots # <<>> => response.status = 200

(***************************************************************************)
(* Concurrent submissions.  The server keeps the requests it has received  *)
(* as coroutines on one event loop; the loop runs one coroutine at a time, *)
(* from where it stands to its next await or to its return.  The requests  *)
(* in flight are submissions of one ballot kind for one voter id (votes    *)
(* are for candidate 1); the registries are filled by calls in between.    *)
(***************************************************************************)
Submission(op, voter_id, candidate_id, ranking, ciphertext, proof) ==
    [op |-> op, voter_id |-> voter_id, candidate_id |-> candidate_id,
     ranking |-> ranking, ciphertext |-> ciphertext, proof |-> proof]

Submissions ==
    {Submission("cast_vote", v, 1, <<>>, "", "") : v \in BallotVoterIds}
    \cup {Submission("submit_ranked_ballot", v, 0, r, "", "") :
            v \in BallotVoterIds, r \in BallotRankings}
    \cup {Submission("submit_encrypted_ballot", b.voter_id, b.candidate_id, <<>>,
                     b.ciphertext, b.proof) : b \in BallotEncryptedInputs}

\* Mutant of SuspendsAfterChecks: every handler yields to the loop between
\* its checks and its writes.
AwaitsAfterChecks(op) == TRUE

\* Whether the handler of op has an await between its checks and its writes:
\* none of the three handlers contains an await.
SuspendsAfterChecks(op) == FALSE

SameBallot(r, q) == r.sub.op = q.sub.op /\ r.sub.voter_id = q.sub.voter_id

InFlight(r) == r.pc \in {"received", "suspended"}

\* The server accepts a connection: the request's coroutine is created.
Receive(sub) ==
    /\ Cardinality(DOMAIN requests) < MaxRequests
    /\ \A id \in DOMAIN requests :
           /\ requests[id].sub.op = sub.op
           /\ requests[id].sub.voter_id = sub.voter_id
    /\ requests' = Put(requests, Cardinality(DOMAIN requests) + 1,
                       [sub |-> sub, pc |-> "received", status |-> 0, detail |-> "",
                        rivals |-> {}])
    /\ UNCHANGED <<registries, plurality, encrypted, ranked, response>>

SubmissionChecks(sub) ==
    IF sub.op = "cast_vote" THEN VoteChecks(sub.voter_id, sub.candidate_id)
    ELSE IF sub.op = "submit_ranked_ballot"
    THEN RankedChecks(RankedBallot(sub.voter_id, sub.ranking))
    ELSE EncryptedChecks(EncryptedBallot(sub.voter_id, sub.candidate_id,
                                         sub.ciphertext, sub.proof))

\* The handler of a submission, run from its first line to its return.
Handle(sub, now) ==
    IF sub.op = "cast_vote" THEN cast_vote(sub.voter_id, sub.candidate_id, now)
    ELSE IF sub.op = "submit_ranked_ballot"
    THEN submit_ranked_ballot(RankedBallot(sub.voter_id, sub.ranking))
    ELSE submit_encrypted_ballot(EncryptedBallot(sub.voter_id, sub.candidate_id,
                                                 sub.ciphertext, sub.proof))

\* The rest of a handler that was suspended after its checks: its writes and
\* its return.
Finish(sub, now) ==
    /\ response' = Reply(sub.op, 201, "", NoBody)
    /\ IF sub.op = "cast_vote"
       THEN /\ RecordVote(sub.voter_id, sub.candidate_id, 1, now)
            /\ UNCHANGED <<registries, encrypted, ranked>>
       ELSE IF sub.op = "submit_ranked_ballot"
       THEN /\ StoreRanked(RankedBallot(sub.voter_id, sub.ranking))
            /\ UNCHANGED <<registries, plurality, encrypted>>
       ELSE /\ StoreEncrypted(EncryptedBallot(sub.voter_id, sub.candidate_id,
                                              sub.ciphertext, sub.proof))
            /\ UNCHANGED <<registries, plurality, ranked>>

\* The same-kind, same-voter requests in flight while request id is answered.
Rivals(id) ==
    {other \in DOMAIN requests \ {id} :
        InFlight(requests[other]) /\ SameBallot(requests[other], requests[id])}

Answered(id) ==
    requests' = [requests EXCEPT ![id].pc = "answered",
                                 ![id].status = response'.status,
                                 ![id].detail = response'.detail,
                                 ![id].rivals = Rivals(id)]

\* The event loop runs the coroutine of request id.
Resume(id, now) ==
    LET r == requests[id] IN
    /\ InFlight(r)
    /\ IF r.pc = "suspended"
       THEN Finish(r.sub, now) /\ Answered(id)
       ELSE IF SuspendsAfterChecks(r.sub.op) /\ SubmissionChecks(r.sub).status = 201
       THEN /\ requests' = [requests EXCEPT ![id].pc = "suspended"]
            /\ UNCHANGED <<registries, plurality, encrypted, ranked, response>>
       ELSE Handle(r.sub, now) /\ Answered(id)

ConcurrentNext ==
    \/ \E voters \in BallotVoterBatches : create_voters(voters) /\ UNCHANGED requests
    \/ register_candidates(<<1>>) /\ UNCHANGED requests
    \/ \E sub \in Submissions : Receive(sub)
    \/ \E id \in DOMAIN requests, now \in Times : Resume(id, now)

SpecConcurrent == Init /\ [][ConcurrentNext]_vars

SubmissionsNext ==
    \/ \E v \in BallotVoterIds :
           create_voters(<<[voter_id |-> v, age |-> MinVotingAge]>>) /\ UNCHANGED requests
    \/ \E v \in BallotVoterIds : delete_voter(v) /\ UNCHANGED requests
    \/ register_candidates(<<1>>) /\ UNCHANGED requests
    \/ \E v \in BallotVoterIds, c \in CandidateIds, now \in Times :
           cast_vote(v, c, now) /\ UNCHANGED requests
    \/ \E v \in BallotVoterIds, c \in CandidateIds, p \in BOOLEAN, now \in Times :
           cast_weighted_vote(v, c, p, now) /\ UNCHANGED requests
    \/ \E v \in BallotVoterIds, r \in BallotRankings :
           submit_ranked_ballot(RankedBallot(v, r)) /\ UNCHANGED requests
    \/ \E b \in BallotEncryptedInputs : submit_encrypted_ballot(b) /\ UNCHANGED requests

SpecSubmissions == Init /\ [][SubmissionsNext]_vars

(***************************************************************************)
(* Independence of the three ballot kinds (under SpecSubmissions)          *)
(***************************************************************************)
PluralityOps == {"cast_vote", "cast_weighted_vote"}

\* What each submission call would answer in the current state.
VoteAnswers == [v \in BallotVoterIds, c \in CandidateIds |-> VoteChecks(v, c)]
RankedAnswers ==
    [v \in BallotVoterIds, r \in BallotRankings |-> RankedChecks(RankedBallot(v, r))]
EncryptedAnswers == [b \in BallotEncryptedInputs |-> EncryptedChecks(b)]

\* C11: a submission of one ballot kind, accepted or rejected, leaves the stores
\* and has-voted markers of the other two kinds unchanged and does not change
\* what a submission of another kind would be answered; cast_vote and
\* cast_weighted_vote are one kind: after either accepts a voter, both reject
\* that voter.
C11_BallotKindsAreIndependent ==
    [][/\ response'.op \in PluralityOps =>
            /\ UNCHANGED <<encrypted, ranked>>
            /\ RankedAnswers' = RankedAnswers
            /\ EncryptedAnswers' = EncryptedAnswers
            /\ response'.status = 201 =>
                   \A v \in DOMAIN voter_voted' \ DOMAIN voter_voted :
                       \A c \in CandidateIds : VoteAnswers'[v, c].status # 201
       /\ response'.op = "submit_ranked_ballot" =>
            /\ UNCHANGED <<plurality, encrypted>>
            /\ VoteAnswers' = VoteAnswers
            /\ EncryptedAnswers' = EncryptedAnswers
       /\ response'.op = "submit_encrypted_ballot" =>
            /\ UNCHANGED <<plurality, ranked>>
            /\ VoteAnswers' = VoteAnswers
            /\ RankedAnswers' = RankedAnswers]_vars

\* A registered voter who already holds a vote record and a ranked ballot has
\* an encrypted ballot accepted.
C11_Witness ==
    /\ response.op = "submit_encrypted_ballot"
    /\ response.status = 201
    /\ \E v \in BallotVoterIds :
           /\ v \in DOMAIN in_memory_voters
           /\ VoteRecordsOf(v) = 1
           /\ CountVoter(ranked_ballots, v) = 1
           /\ CountVoter(encrypted_ballots, v) = 1

(***************************************************************************)
(* vote_routes.py: get_vote_timeline and get_votes_in_range                *)
(*                                                                         *)
(* A stored timestamp is datetime.utcnow(): a naive datetime, modelled by  *)
(* its instant.  The query parameters `from` and `to` are parsed by the    *)
(* framework from ISO 8601 text: text with an offset ("...Z", "+00:00")    *)
(* gives a timezone-aware datetime, text without one a naive datetime.     *)
(* Python orders two datetimes only if both are naive or both are aware;   *)
(* otherwise the comparison raises TypeError.                              *)
(***************************************************************************)
DateTime(instant, aware) == [instant |-> instant, aware |-> aware]

\* from_time <= r.timestamp <= to_time for a stored (naive) timestamp: the
\* chained comparison evaluates its second half only if the first is true.
InRange(from_time, timestamp, to_time) ==
    IF from_time.aware THEN "TypeError"
    ELSE IF ~(from_time.instant <= timestamp) THEN "out"
    ELSE IF to_time.aware THEN "TypeError"
    ELSE IF timestamp <= to_time.instant THEN "in"
    ELSE "out"

RangeRaises(timeline, from_time, to_time) ==
    \E i \in 1..Len(timeline) :
        InRange(from_time, timeline[i].timestamp, to_time) = "TypeError"

\* The list comprehension `filtered`, in the order of the timeline.
RECURSIVE FilterRange(_, _, _)
FilterRange(timeline, from_time, to_time) ==
    IF timeline = <<>> THEN <<>>
    ELSE (IF InRange(from_time, Head(timeline).timestamp, to_time) = "in"
          THEN <<Head(timeline)>> ELSE <<>>)
         \o FilterRange(Tail(timeline), from_time, to_time)

\* What get_votes_in_range answers in the current state.
votes_in_range_result(candidate_id, from_time, to_time) ==
    IF candidate_id \notin in_memory_candidates
    THEN Reply("get_votes_in_range", 404, "Candidate not found.", NoBody)
    ELSE LET timeline == Get(vote_timeline, candidate_id, <<>>) IN
         IF RangeRaises(timeline, from_time, to_time)
         THEN Reply("get_votes_in_range", 500, "TypeError", NoBody)
         ELSE LET filtered == FilterRange(timeline, from_time, to_time) IN
              Reply("get_votes_in_range", 200, "",
                    [candidate_id |-> candidate_id,
                     votes_in_range |-> filtered,
                     total_weight |-> SumWeights(filtered)])

get_votes_in_range(candidate_id, from_time, to_time) ==
    /\ UNCHANGED <<registries, plurality, encrypted, ranked>>
    /\ response' = votes_in_range_result(candidate_id, from_time, to_time)

\* What get_vote_timeline answers in the current state.
vote_timeline_result(candidate_id) ==
    IF candidate_id \notin in_memory_candidates
    THEN Reply("get_vote_timeline", 404, "Candidate not found.", NoBody)
    ELSE Reply("get_vote_timeline", 200, "",
               [candidate_id |-> candidate_id,
                timeline |-> Get(vote_timeline, candidate_id, <<>>)])

get_vote_timeline(candidate_id) ==
    /\ UNCHANGED <<registries, plurality, encrypted, ranked>>
    /\ response' = vote_timeline_result(candidate_id)

\* The plurality path with a clock: utcnow() is the wall clock, which may
\* repeat an instant or step back between two calls.
Clock == 1..MaxTime
QueryTimes == {DateTime(t, aware) : t \in Clock, aware \in BOOLEAN}
AdultBatches == SeqsOf([voter_id : VoterIds, age : {MinVotingAge}], 1, 1)

TimelineNext ==
    \/ \E voters \in AdultBatches : create_voters(voters) /\ UNCHANGED requests
    \/ \E candidates \in CandidateBatches :
           register_candidates(candidates) /\ UNCHANGED requests
    \/ \E v \in VoterIds, c \in CandidateIds, now \in Clock :
           cast_vote(v, c, now) /\ UNCHANGED requests
    \/ \E v \in VoterIds, c \in CandidateIds, p \in BOOLEAN, now \in Clock :
           cast_weighted_vote(v, c, p, now) /\ UNCHANGED requests
    \/ \E c \in CandidateIds : get_vote_timeline(c) /\ UNCHANGED requests
    \/ \E c \in CandidateIds, from_time \in QueryTimes, to_time \in QueryTimes :
           get_votes_in_range(c, from_time, to_time) /\ UNCHANGED requests

SpecTimeline == Init /\ [][TimelineNext]_vars

\* The records of a timeline whose instant lies in [lo, hi], in timeline order.
EventsBetween(timeline, lo, hi) ==
    SelectSeq(timeline, LAMBDA r : lo <= r.timestamp /\ r.timestamp <= hi)

\* The answer the range query is to give for a registered candidate.
RangeAnswer(candidate_id, from_time, to_time) ==
    LET events == EventsBetween(Get(vote_timeline, candidate_id, <<>>),
                                from_time.instant, to_time.instant)
    IN  /\ response'.status = 200
        /\ response'.body.votes_in_range = events
        /\ response'.body.total_weight = SumWeights(events)

\* C12: get_votes_in_range(candidate, from, to) answers 404 "Candidate not
\* found." for an unregistered candidate and otherwise returns exactly the
\* candidate's records with from <= timestamp <= to, both bounds included, in
\* submission order, with total_weight the sum of the returned weights.
C12_RangeReturnsEventsBetween ==
    [][\A c \in CandidateIds, from_time \in QueryTimes, to_time \in QueryTimes :
          get_votes_in_range(c, from_time, to_time) =>
              IF c \in in_memory_candidates
              THEN RangeAnswer(c, from_time, to_time)
              ELSE /\ response'.status = 404
                   /\ response'.detail = "Candidate not found."]_vars

\* The same statement for bounds given without an offset (naive datetimes).
RangeReturnsEventsBetweenNaiveBounds ==
    [][\A c \in CandidateIds, from_time \in QueryTimes, to_time \in QueryTimes :
          (/\ get_votes_in_range(c, from_time, to_time)
           /\ ~from_time.aware /\ ~to_time.aware) =>
              IF c \in in_memory_candidates
              THEN RangeAnswer(c, from_time, to_time)
              ELSE /\ response'.status = 404
                   /\ response'.detail = "Candidate not found."]_vars

\* A range query with naive bounds returned one of two records of a candidate,
\* a record stamped exactly at the upper bound.
RangeWitness ==
    /\ response.op = "get_votes_in_range"
    /\ response.status = 200
    /\ Len(response.body.votes_in_range) = 1
    /\ Len(Get(vote_timeline, response.body.candidate_id, <<>>)) = 2
    /\ response.body.total_weight = 2

(***************************************************************************)
(* ballot_routes.py: risk_limiting_audit.  risk_limit is a float; the      *)
(* model takes the risk limits k/10 as exact fractions (for the totals and *)
(* tenths below the float product truncates to the same integer as the     *)
(* exact one).  AuditRequest puts no constraint on risk_limit, so negative *)
(* values and values above 1 reach the handler.                            *)
(***************************************************************************)
Fraction(num, den) == [num |-> num, den |-> den]
Tenths(k) == Fraction(k, 10)

\* request.total_ballots * request.risk_limit
Product(total_ballots, risk_limit) ==
    Fraction(total_ballots * risk_limit.num, risk_limit.den)

\* int(x) of a float x: the fractional part is dropped, towards zero.
int(q) == IF q.num >= 0 THEN q.num \div q.den ELSE -((-q.num) \div q.den)

\* What risk_limiting_audit answers.
audit_result(total_ballots, risk_limit) ==
    IF total_ballots <= 0
    THEN Reply("risk_limiting_audit", 400, "Invalid total ballot count.", NoBody)
    ELSE Reply("risk_limiting_audit", 200, "",
               [total_ballots |-> total_ballots,
                risk_limit |-> risk_limit,
                recommended_sample_size |->
                    int(Product(total_ballots, risk_limit)) + 1,
                method |-> "Kaplan-Markov (simulated)"])

risk_limiting_audit(total_ballots, risk_limit) ==
    /\ UNCHANGED <<registries, plurality, encrypted, ranked>>
    /\ response' = audit_result(total_ballots, risk_limit)

TotalBallotCounts == (-1)..MaxTotalBallots
RiskLimits == {Tenths(k) : k \in (-MaxRiskTenths)..MaxRiskTenths}

AuditNext ==
    \E total_ballots \in TotalBallotCounts, risk_limit \in RiskLimits :
        risk_limiting_audit(total_ballots, risk_limit) /\ UNCHANGED requests

SpecAudit == Init /\ [][AuditNext]_vars

\* floor of a fraction with a positive denominator
Floor(q) == q.num \div q.den

\* C13: risk_limiting_audit(totalBallots, riskLimit) answers 400 "Invalid total
\* ballot count." exactly when totalBallots <= 0; otherwise, for every risk
\* limit, recommended_sample_size = floor(totalBallots * riskLimit) + 1.
C13_SampleSizeIsFloorPlusOne ==
    [][\A total_ballots \in TotalBallotCounts, risk_limit \in RiskLimits :
          risk_limiting_audit(total_ballots, risk_limit) =>
              IF total_ballots <= 0
              THEN /\ response'.status = 400
                   /\ response'.detail = "Invalid total ballot count."
              ELSE /\ response'.status = 200
                   /\ response'.body.recommended_sample_size =
                          Floor(Product(total_ballots, risk_limit)) + 1]_vars

\* The same statement for the risk limits that are not negative.
SampleSizeIsFloorPlusOneFromZero ==
    [][\A total_ballots \in TotalBallotCounts, risk_limit \in RiskLimits :
          (risk_limiting_audit(total_ballots, risk_limit) /\ risk_limit.num >= 0) =>
              IF total_ballots <= 0
              THEN /\ response'.status = 400
                   /\ response'.detail = "Invalid total ballot count."
              ELSE /\ response'.status = 200
                   /\ response'.body.recommended_sample_size =
                          Floor(Product(total_ballots, risk_limit)) + 1]_vars

(***************************************************************************)
(* ballot_routes.py: homomorphic_tally and differential_privacy_query      *)
(*                                                                         *)
(* Floats of the noised count are finite fractions or one of inf, -inf,    *)
(* nan.  DPQuery.epsilon is an unconstrained float: a positive epsilon     *)
(* below 1 / sys.float_info.max (a subnormal, e.g. 1e-320) makes           *)
(* 1.0 / epsilon overflow to inf.                                          *)
(***************************************************************************)
Float(kind, num, den) == [kind |-> kind, num |-> num, den |-> den]
Finite(num, den) == Float("finite", num, den)
PlusInf == Float("inf", 1, 1)
MinusInf == Float("-inf", -1, 1)
NaN == Float("nan", 0, 1)
\* A positive subnormal epsilon.
Subnormal == Float("subnormal", 1, 1)

DPQuery(candidate_id, epsilon) == [candidate_id |-> candidate_id, epsilon |-> epsilon]

\* sum(1 for b in encrypted_ballots if b.candidate_id == candidate_id)
RECURSIVE CountFor(_, _)
CountFor(ballots, candidate_id) ==
    IF ballots = <<>> THEN 0
    ELSE (IF Head(ballots).candidate_id = candidate_id THEN 1 ELSE 0)
         + CountFor(Tail(ballots), candidate_id)

\* 1.0 / query.epsilon if query.epsilon > 0 else 1.0
Sigma(epsilon) ==
    IF epsilon.kind = "subnormal" THEN PlusInf
    ELSE IF epsilon.num > 0 THEN Finite(epsilon.den, epsilon.num)
    ELSE Finite(1, 1)

\* The values random.gauss(0, sigma) can return: mu + z * sigma for a finite
\* z, so inf, -inf or nan (z = 0) for an infinite sigma, and finite values
\* otherwise (here the halves up to MaxNoiseHalves / 2 in magnitude).
gauss(sigma) ==
    IF sigma.kind = "inf" THEN {PlusInf, MinusInf, NaN}
    ELSE {Finite(k, 2) : k \in (-MaxNoiseHalves)..MaxNoiseHalves}

\* count + noise
Plus(count, noise) ==
    IF noise.kind = "finite" THEN Finite(count * noise.den + noise.num, noise.den)
    ELSE noise

\* round(x) of a finite float: the nearest integer, a tie going to the even one.
round(x) ==
    LET lo == x.num \div x.den
        twice == 2 * (x.num - lo * x.den)
    IN  IF twice < x.den THEN lo
        ELSE IF twice > x.den THEN lo + 1
        ELSE IF lo % 2 = 0 THEN lo ELSE lo + 1

\* What differential_privacy_query answers for one value of the noise draw.
\* round() of inf raises OverflowError and of nan ValueError: the framework
\* answers 500.
dp_result(query, noise) ==
    LET count == CountFor(encrypted_ballots, query.candidate_id)
        sum == Plus(count, noise)
    IN  IF sum.kind \in {"inf", "-inf"}
        THEN Reply("differential_privacy_query", 500, "OverflowError", NoBody)
        ELSE IF sum.kind = "nan"
        THEN Reply("differential_privacy_query", 500, "ValueError", NoBody)
        ELSE Reply("differential_privacy_query", 200, "",
                   [candidate_id |-> query.candidate_id,
                    true_count |-> count,
                    noisy_count |-> Max2(0, round(sum)),
                    epsilon |-> query.epsilon])

differential_privacy_query(query, noise) ==
    /\ UNCHANGED <<registries, plurality, encrypted, ranked>>
    /\ response' = dp_result(query, noise)

\* Mutant of TallyLoop: a candidate's entry is set to 1 instead of incremented.
RECURSIVE TallyLoopNoIncrement(_, _)
TallyLoopNoIncrement(ballots, tally) ==
    IF ballots = <<>> THEN tally
    ELSE TallyLoopNoIncrement(Tail(ballots), Put(tally, Head(ballots).candidate_id, 1))

\* for ballot in encrypted_ballots: tally[c] = tally.get(c, 0) + 1
RECURSIVE TallyLoop(_, _)
TallyLoop(ballots, tally) ==
    IF ballots = <<>> THEN tally
    ELSE TallyLoop(Tail(ballots),
                   Put(tally, Head(ballots).candidate_id,
                       Get(tally, Head(ballots).candidate_id, 0) + 1))

\* What homomorphic_tally answers in the current state.
homomorphic_tally_result ==
    IF encrypted_ballots = <<>>
    THEN Reply("homomorphic_tally", 404, "No encrypted ballots found.", NoBody)
    ELSE Reply("homomorphic_tally", 200, "",
               [tally |-> TallyLoop(encrypted_ballots, EmptyDict),
                proof |-> "simulated-homomorphic-proof",
                total_ballots |-> Len(encrypted_ballots)])

\* Mutant of homomorphic_tally: the ballots are consumed by the tally.
homomorphic_tally_consumes ==
    /\ UNCHANGED <<registries, plurality, ranked, encrypted_voter_set>>
    /\ encrypted_ballots' = <<>>
    /\ response' = homomorphic_tally_result

homomorphic_tally ==
    /\ UNCHANGED <<registries, plurality, encrypted, ranked>>
    /\ response' = homomorphic_tally_result

\* The encrypted path with its two queries.  submit_encrypted_ballot takes any
\* candidate id; bodies with an empty ciphertext are the invalid ones.
AnalyticsBallots ==
    {EncryptedBallot(v, c, ct, "zk") : v \in VoterIds, c \in CandidateIds, ct \in {"", "ct"}}
Epsilons ==
    {Finite(-1, 1), Finite(0, 1), Finite(1, 2), Finite(1, 1), Finite(2, 1), Subnormal}
DPQueries == {DPQuery(c, epsilon) : c \in CandidateIds, epsilon \in Epsilons}

AnalyticsNext ==
    \/ \E b \in AnalyticsBallots : submit_encrypted_ballot(b) /\ UNCHANGED requests
    \/ homomorphic_tally /\ UNCHANGED requests
    \/ \E query \in DPQueries : \E noise \in gauss(Sigma(query.epsilon)) :
           differential_privacy_query(query, noise) /\ UNCHANGED requests

SpecAnalytics == Init /\ [][AnalyticsNext]_vars

\* The accepted encrypted ballots for a candidate.
EncryptedFor(candidate_id) ==
    {i \in 1..Len(encrypted_ballots) : encrypted_ballots[i].candidate_id = candidate_id}

\* C14: for every candidate id, every epsilon and every value of the noise
\* draw, differential_privacy_query returns true_count = the number of accepted
\* encrypted ballots for the candidate and noisy_count = max(0, round(true_count
\* + noise)): an integer that is never negative, 0 when true_count + noise <= 0
\* and otherwise within 1/2 of true_count + noise.
C14_NoisyCountIsClampedRounding ==
    [][\A query \in DPQueries : \A noise \in gauss(Sigma(query.epsilon)) :
          differential_privacy_query(query, noise) =>
              LET true_count == Cardinality(EncryptedFor(query.candidate_id)) IN
              /\ response'.status = 200
              /\ response'.body.true_count = true_count
              /\ response'.body.noisy_count >= 0
              /\ noise.kind = "finite"
              /\ LET twice == 2 * true_count * noise.den + 2 * noise.num
                     noisy == 2 * noise.den * response'.body.noisy_count
                 IN  IF twice <= 0 THEN noisy = 0
                     ELSE noisy - twice <= noise.den /\ twice - noisy <= noise.den]_vars

\* The same statement for the epsilons whose reciprocal is a finite float.
NoisyCountIsClampedRoundingFiniteSigma ==
    [][\A query \in DPQueries : \A noise \in gauss(Sigma(query.epsilon)) :
          (differential_privacy_query(query, noise) /\ query.epsilon.kind = "finite") =>
              LET true_count == Cardinality(EncryptedFor(query.candidate_id)) IN
              /\ response'.status = 200
              /\ response'.body.true_count = true_count
              /\ response'.body.noisy_count >= 0
              /\ noise.kind = "finite"
              /\ LET twice == 2 * true_count * noise.den + 2 * noise.num
                     noisy == 2 * noise.den * response'.body.noisy_count
                 IN  IF twice <= 0 THEN noisy = 0
                     ELSE noisy - twice <= noise.den /\ twice - noisy <= noise.den]_vars

\* The sum of the counts of a tally.
RECURSIVE SumOfTally(_)
SumOfTally(tally) ==
    IF DOMAIN tally = {} THEN 0
    ELSE LET c == CHOOSE x \in DOMAIN tally : TRUE IN tally[c] + SumOfTally(Del(tally, c))

\* C18: homomorphic_tally answers 404 "No encrypted ballots found." exactly
\* when no encrypted ballot has been accepted; otherwise its tally maps exactly
\* the candidate ids with at least one accepted ballot to their number of
\* ballots, and the counts sum to the number of accepted encrypted ballots,
\* which is the number of voters marked as having submitted one.
C18_TallyCountsEveryBallotOnce ==
    response.op = "homomorphic_tally" =>
        /\ response.status = 404 <=> encrypted_ballots = <<>>
        /\ response.status = 404 => response.detail = "No encrypted ballots found."
        /\ encrypted_ballots # <<>> =>
              /\ response.status = 200
              /\ DOMAIN response.body.tally =
                     {c \in CandidateIds : EncryptedFor(c) # {}}
              /\ \A c \in DOMAIN response.body.tally :
                     response.body.tally[c] = Cardinality(EncryptedFor(c))
              /\ SumOfTally(response.body.tally) = Len(encrypted_ballots)
              /\ Len(encrypted_ballots) = Cardinality(encrypted_voter_set)

\* A tally that counts two ballots for one candidate.
C18_Witness ==
    /\ response.op = "homomorphic_tally"
    /\ response.status = 200
    /\ \E c \in DOMAIN response.body.tally : response.body.tally[c] = 2

(***************************************************************************)
(* The three record stores over the life of the registries: submissions of *)
(* several voters (weighted votes for candidate 1), voter updates and      *)
(* deletions in between, and the timeline query.                           *)
(***************************************************************************)
RecordVoterIds == 1..MaxRecordVoterId
RecordVoterBatches == SeqsOf([voter_id : RecordVoterIds, age : {MinVotingAge}], 1, 1)

RecordsNext ==
    \/ \E voters \in RecordVoterBatches : create_voters(voters) /\ UNCHANGED requests
    \/ \E v \in RecordVoterIds : update_voter(v, MinVotingAge) /\ UNCHANGED requests
    \/ \E v \in RecordVoterIds : delete_voter(v) /\ UNCHANGED requests
    \/ register_candidates(<<1>>) /\ UNCHANGED requests
    \/ \E v \in RecordVoterIds, now \in Times :
           cast_weighted_vote(v, 1, TRUE, now) /\ UNCHANGED requests
    \/ \E v \in RecordVoterIds, r \in BallotRankings :
           submit_ranked_ballot(RankedBallot(v, r)) /\ UNCHANGED requests
    \/ \E v \in RecordVoterIds :
           submit_encrypted_ballot(EncryptedBallot(v, 1, "ct", "zk")) /\ UNCHANGED requests
    \/ get_vote_timeline(1) /\ UNCHANGED requests

SpecRecords == Init /\ [][RecordsNext]_vars

\* s is an initial part of t, or t itself.
IsPrefix(s, t) == Len(s) <= Len(t) /\ SubSeq(t, 1, Len(s)) = s

\* C15: every step of the API (voter updates and deletions included) keeps
\* each accepted vote record, ranked ballot and encrypted ballot in its store at
\* its position and with its content, a new record being appended after all
\* earlier ones; and get_vote_timeline returns the candidate's records in that
\* order.
C15_RecordsAreAppendOnly ==
    [][/\ IsPrefix(ranked_ballots, ranked_ballots')
       /\ IsPrefix(encrypted_ballots, encrypted_ballots')
       /\ \A c \in DOMAIN vote_timeline :
              /\ c \in DOMAIN vote_timeline'
              /\ IsPrefix(vote_timeline[c], vote_timeline'[c])
       /\ (response'.op = "get_vote_timeline" /\ response'.status = 200) =>
              response'.body.timeline =
                  Get(vote_timeline, response'.body.candidate_id, <<>>)]_vars

\* The timeline query returned two records, the first of a voter who has been
\* deleted since and whose ranked ballot is still first in its store.
C15_Witness ==
    /\ response.op = "get_vote_timeline"
    /\ response.status = 200
    /\ Len(response.body.timeline) = 2
    /\ response.body.timeline[1].voter_id \notin DOMAIN in_memory_voters
    /\ Len(ranked_ballots) = 2
    /\ ranked_ballots[1].voter_id = response.body.timeline[1].voter_id
    /\ Len(encrypted_ballots) = 2

(***************************************************************************)
(* Errors of submit_encrypted_ballot (under SpecSubmissions)               *)
(***************************************************************************)
IsValidEncrypted(ballot) == ballot.ciphertext # "" /\ ballot.proof # ""

\* C16: submit_encrypted_ballot answers 409 when the voter id is already in
\* the encrypted voter set, whatever the ciphertext and proof; otherwise 400
\* "Invalid encrypted ballot." when the ciphertext or the proof is empty, and
\* then it stores nothing and does not mark the voter, so that a valid
\* submission of the same voter is accepted afterwards; otherwise the ballot is
\* accepted, appended and the voter marked.
C16_DuplicateBeforeInvalid ==
    [][response'.op = "submit_encrypted_ballot" =>
       \A b \in BallotEncryptedInputs :
          submit_encrypted_ballot(b) =>
              IF b.voter_id \in encrypted_voter_set
              THEN /\ response'.status = 409
                   /\ UNCHANGED encrypted
              ELSE IF ~IsValidEncrypted(b)
              THEN /\ response'.status = 400
                   /\ response'.detail = "Invalid encrypted ballot."
                   /\ UNCHANGED encrypted
                   /\ \A later \in BallotEncryptedInputs :
                          (later.voter_id = b.voter_id /\ IsValidEncrypted(later)) =>
                              EncryptedAnswers'[later].status = 201
              ELSE /\ response'.status = 201
                   /\ encrypted_ballots' = Append(encrypted_ballots, b)
                   /\ encrypted_voter_set' = encrypted_voter_set \cup {b.voter_id}]_vars

\* An encrypted submission was answered 400 and the stores of the encrypted
\* kind are still empty, the voter holding ballots of the other two kinds.
C16_Witness ==
    /\ response.op = "submit_encrypted_ballot"
    /\ response.status = 400
    /\ encrypted_ballots = <<>>
    /\ encrypted_voter_set = {}
    /\ ranked_voter_set # {}
    /\ DOMAIN voter_voted # {}

(***************************************************************************)
(* Effect of an accepted vote (under Spec)                                 *)
(***************************************************************************)
\* The step added `amount` to candidate_id's tally and appended one record of
\* that weight to its timeline, and left every other candidate's tally and
\* timeline as they were.
AddedTo(candidate_id, amount) ==
    /\ candidate_votes'[candidate_id] = Get(candidate_votes, candidate_id, 0) + amount
    /\ Len(vote_timeline'[candidate_id]) =
           Len(Get(vote_timeline, candidate_id, <<>>)) + 1
    /\ vote_timeline'[candidate_id][Len(vote_timeline'[candidate_id])].weight = amount
    /\ amount \in {1, 2}
    /\ \A d \in (CandidateIds \cup DOMAIN candidate_votes' \cup DOMAIN vote_timeline')
                 \ {candidate_id} :
           /\ d \in DOMAIN candidate_votes' <=> d \in DOMAIN candidate_votes
           /\ d \in DOMAIN vote_timeline' <=> d \in DOMAIN vote_timeline
           /\ Get(candidate_votes', d, 0) = Get(candidate_votes, d, 0)
           /\ Get(vote_timeline', d, <<>>) = Get(vote_timeline, d, <<>>)

\* C17: an accepted cast_vote adds exactly 1, and an accepted
\* cast_weighted_vote 2 if profile_updated and 1 otherwise, to the tally of the
\* chosen candidate only; the other candidates' tallies and timelines are
\* unchanged and the appended record carries the amount added as its weight.
C17_AcceptedVoteAddsItsWeight ==
    [][(response'.op \in PluralityOps /\ response'.status = 201) =>
          \A v \in VoterIds, c \in CandidateIds, now \in Times :
              /\ cast_vote(v, c, now) => AddedTo(c, 1)
              /\ \A p \in BOOLEAN :
                     cast_weighted_vote(v, c, p, now) => AddedTo(c, IF p THEN 2 ELSE 1)]_vars

\* A weighted vote of weight 2 was accepted for a candidate while the other
\* candidate holds a plain vote.
C17_Witness ==
    /\ response.op = "cast_weighted_vote"
    /\ response.status = 201
    /\ \E c, d \in DOMAIN candidate_votes :
           /\ c # d
           /\ candidate_votes[c] = 2
           /\ Len(vote_timeline[c]) = 1
           /\ candidate_votes[d] = 1

(***************************************************************************)
(* The winner set of the Schulze resolution (under SpecSchulze)            *)
(***************************************************************************)
\* C19: whenever schulze_winner succeeds and some accepted ranking names a
\* candidate, the winner set is not empty; when the store is not empty and
\* every accepted ranking is empty, it succeeds with an empty winner set and an
\* empty pairwise matrix.
C19_SchulzeHasAWinner ==
    response.op = "schulze_winner" =>
        /\ (response.status = 200 /\ RankedCandidates(ranked_ballots) # {}) =>
               response.body.winners # {}
        /\ (ranked_ballots # <<>> /\ RankedCandidates(ranked_ballots) = {}) =>
               /\ response.status = 200
               /\ response.body.winners = {}
               /\ DOMAIN response.body.audit_trail = {}

\* A resolution over a store that holds an empty ranking next to rankings of
\* three candidates in which no candidate beats both others directly.
C19_Witness ==
    /\ response.op = "schulze_winner"
    /\ response.status = 200
    /\ \E b \in 1..Len(ranked_ballots) : ranked_ballots[b].ranking = <<>>
    /\ RankedCandidates(ranked_ballots) = {1, 2, 3}
    /\ \A c \in {1, 2, 3} : \E d \in {1, 2, 3} \ {c} :
           response.body.audit_trail[<<c, d>>] <= response.body.audit_trail[<<d, c>>]
    /\ response.body.winners # {}

\* A resolution over a store of empty rankings only.
SchulzeEmptyRankingsWitness ==
    /\ response.op = "schulze_winner"
    /\ response.status = 200
    /\ Len(ranked_ballots) = 2
    /\ RankedCandidates(ranked_ballots) = {}

(***************************************************************************)
(* The result queries next to the submissions: every query endpoint of     *)
(* vote_routes.py and ballot_routes.py, called between submissions of the  *)
(* three ballot kinds (votes and encrypted ballots for candidate 1).       *)
(***************************************************************************)
QueryOps ==
    {"get_candidate_votes", "voting_results", "get_winner", "get_vote_timeline",
     "get_votes_in_range", "schulze_winner", "homomorphic_tally",
     "differential_privacy_query", "risk_limiting_audit"}

RangeBounds == {DateTime(1, aware) : aware \in BOOLEAN}
QueriedTotals == {0, 10}

QueriesNext ==
    \/ \E voters \in BallotVoterBatches : create_voters(voters) /\ UNCHANGED requests
    \/ register_candidates(<<1>>) /\ UNCHANGED requests
    \/ \E v \in BallotVoterIds, now \in Times : cast_vote(v, 1, now) /\ UNCHANGED requests
    \/ \E v \in BallotVoterIds, r \in BallotRankings :
           submit_ranked_ballot(RankedBallot(v, r)) /\ UNCHANGED requests
    \/ \E v \in BallotVoterIds :
           submit_encrypted_ballot(EncryptedBallot(v, 1, "ct", "zk")) /\ UNCHANGED requests
    \/ \E c \in CandidateIds : get_candidate_votes(c) /\ UNCHANGED requests
    \/ voting_results /\ UNCHANGED requests
    \/ get_winner /\ UNCHANGED requests
    \/ \E c \in CandidateIds : get_vote_timeline(c) /\ UNCHANGED requests
    \/ \E c \in CandidateIds, from_time \in RangeBounds, to_time \in RangeBounds :
           get_votes_in_range(c, from_time, to_time) /\ UNCHANGED requests
    \/ schulze_winner /\ UNCHANGED requests
    \/ homomorphic_tally /\ UNCHANGED requests
    \/ \E c \in CandidateIds : \E noise \in gauss(Sigma(Finite(1, 1))) :
           differential_privacy_query(DPQuery(c, Finite(1, 1)), noise) /\ UNCHANGED requests
    \/ \E total_ballots \in QueriedTotals :
           risk_limiting_audit(total_ballots, Tenths(1)) /\ UNCHANGED requests

SpecQueries == Init /\ [][QueriesNext]_vars

\* C20: a result query, answered with a result or with an error, leaves the
\* registries, the tallies, the has-voted markers and the three ballot stores
\* unchanged; hence a query without a random draw, run again in the state it
\* leaves behind, gives the answer it just gave.
C20_QueriesChangeNothing ==
    [][/\ response'.op \in QueryOps =>
              UNCHANGED <<registries, plurality, encrypted, ranked>>
       /\ \A c \in CandidateIds :
              /\ get_candidate_votes(c) => candidate_votes_result(c)' = response'
              /\ get_vote_timeline(c) => vote_timeline_result(c)' = response'
              /\ \A from_time \in RangeBounds, to_time \in RangeBounds :
                     get_votes_in_range(c, from_time, to_time) =>
                         votes_in_range_result(c, from_time, to_time)' = response'
       /\ voting_results => voting_results_result' = response'
       /\ get_winner => winner_result' = response'
       /\ homomorphic_tally => homomorphic_tally_result' = response'
       /\ schulze_winner =>
              \A order \in IterationOrders(RankedCandidates(ranked_ballots')) :
                  schulze_result(ranked_ballots, order)' = response'
       /\ \A total_ballots \in QueriedTotals :
              risk_limiting_audit(total_ballots, Tenths(1)) =>
                  audit_result(total_ballots, Tenths(1))' = response']_vars

\* A query for a candidate that is not registered was answered 404 while all
\* three stores hold a ballot.
C20_Witness ==
    /\ response.op = "get_candidate_votes"
    /\ response.status = 404
    /\ DOMAIN candidate_votes # {}
    /\ ranked_ballots # <<>>
    /\ encrypted_ballots # <<>>

====
